---- MODULE Spec2Model ----
(***************************************************************************)
(* Model of bin/filter.py of tesp: get_archive_metadata (the Sentinel-2    *)
(* L1C metadata extractor) and filter_granules / filter_granule (the       *)
(* region-of-interest and already-packaged filter).                        *)
(*                                                                         *)
(* A Python str is a sequence of atoms.  An atom is a run of characters    *)
(* that the program's string operations never cut in two on the inputs of  *)
(* this model: "_", "/", the extensions and the words between them.        *)
(* Substring search, replace, split and slicing are computed on these      *)
(* sequences the way Python computes them on characters.                   *)
(***************************************************************************)
EXTENDS Integers, Sequences, FiniteSets, TLC

\* ------------------------------------------------------------------------
\* Python string and path operations
\* ------------------------------------------------------------------------

\* The value None (granule.get() of an absent attribute).
None == <<"<None>">>

\* s.startswith(p)
str_startswith(s, p) == Len(p) <= Len(s) /\ SubSeq(s, 1, Len(p)) = p

\* p in s
str_in(p, s) == \E k \in 1..(Len(s) - Len(p) + 1) : SubSeq(s, k, k + Len(p) - 1) = p

\* s.replace(old, new): every non-overlapping occurrence, left to right
RECURSIVE str_replace(_, _, _)
str_replace(s, old, new) ==
    IF s = <<>> THEN <<>>
    ELSE IF str_startswith(s, old)
         THEN new \o str_replace(SubSeq(s, Len(old) + 1, Len(s)), old, new)
         ELSE <<Head(s)>> \o str_replace(Tail(s), old, new)

\* s.split(sep) for a one-character separator: the list of fields
RECURSIVE str_split(_, _)
str_split(s, sep) ==
    IF \A k \in 1..Len(s) : s[k] # sep THEN <<s>>
    ELSE LET k == CHOOSE j \in 1..Len(s) : s[j] = sep /\ \A h \in 1..(j - 1) : s[h] # sep
         IN  <<SubSeq(s, 1, k - 1)>> \o str_split(SubSeq(s, k + 1, Len(s)), sep)

\* s[:-n]: s without its last n characters; an atom cut in two leaves the atom "?"
RECURSIVE str_drop_last(_, _)
str_drop_last(s, n) ==
    IF n = 0 \/ s = <<>> THEN s
    ELSE LET last == s[Len(s)]
             front == SubSeq(s, 1, Len(s) - 1)
         IN  IF Len(last) <= n THEN str_drop_last(front, n - Len(last))
             ELSE front \o <<"?">>

\* the index of the last "/" of a path, 0 when it has none
last_sep(p) ==
    IF \A k \in 1..Len(p) : p[k] # "/" THEN 0
    ELSE CHOOSE k \in 1..Len(p) : p[k] = "/" /\ \A h \in (k + 1)..Len(p) : p[h] # "/"

\* os.path.basename(p)
basename(p) == SubSeq(p, last_sep(p) + 1, Len(p))

\* pathlib: Path(p).parent
path_parent(p) == SubSeq(p, 1, last_sep(p) - 1)

\* pathlib: Path(p).joinpath(a, b, c)
path_join3(p, a, b, c) == p \o <<"/">> \o a \o <<"/">> \o b \o <<"/">> \o c

\* the file name extensions of the model's paths
Extensions == {".zip", ".SAFE", ".xml"}

\* pathlib: Path(p).suffix
path_suffix(p) == IF p # <<>> /\ p[Len(p)] \in Extensions THEN <<p[Len(p)]>> ELSE <<>>

\* [s for s in names if token in s]
RECURSIVE names_containing(_, _)
names_containing(names, token) ==
    IF names = <<>> THEN <<>>
    ELSE (IF str_in(token, Head(names)) THEN <<Head(names)>> ELSE <<>>)
         \o names_containing(Tail(names), token)

\* ------------------------------------------------------------------------
\* Time: a SENSING_TIME text is a number of minutes since the epoch
\* ------------------------------------------------------------------------

MinutesPerDay == 1440

\* dateutil.parser.parse(text): a datetime
date_parser(text) == [day |-> text \div MinutesPerDay, minute |-> text % MinutesPerDay]

\* strftime with a format of the time of day
strftime_hm(dt) == dt.minute

\* datetime.strftime('%Y-%m-%d'): the calendar date only
strftime_ymd(dt) == dt.day

\* ------------------------------------------------------------------------
\* XML documents, archives and the file system
\* ------------------------------------------------------------------------

\* An XML document, by what the program's findall() calls return on it:
\*   Granules   ./*/Product_Info/Product_Organisation/Granule_List/Granules
\*   Granule    the same path minus its last character
\*   baseline   the texts of ./*/Product_Info/PROCESSING_BASELINE
\*   sensing    the texts of ./*/SENSING_TIME
ProductDoc(granules, granule, baseline) ==
    [Granules |-> granules, Granule |-> granule, baseline |-> baseline, sensing |-> <<>>]

GranuleDoc(sensing) ==
    [Granules |-> <<>>, Granule |-> <<>>, baseline |-> <<>>, sensing |-> sensing]

\* A granule element: its granuleIdentifier attribute and whether it has an
\* IMAGE_ID child (the earlier products) or IMAGE_FILE children.
GranuleElement(gran_id, image_id) == [granuleIdentifier |-> gran_id, IMAGE_ID |-> image_id]

\* S2A_OPER_MSI_L1C_TL_<orbit>_T<tile>_N<baseline>
GranuleId(orbit, tile, baseline) ==
    <<"S2A", "_", "OPER", "_", "MSI", "_", "L1C", "_", "TL", "_", orbit, "_", "T", tile,
      "_", "N", baseline>>

\* S2A_OPER_MTD_L1C_TL_<orbit>_T<tile>.xml, the granule's metadata file name
GranuleXmlName(orbit, tile) ==
    <<"S2A", "_", "OPER", "_", "MTD", "_", "L1C", "_", "TL", "_", orbit, "_", "T", tile, ".xml">>

L1CDir == <<"/", "l1c", "/">>

SensingA == 12
SensingB == MinutesPerDay + 30

GidA == GranuleId("A1", "55HFA", "02.01")
GidB == GranuleId("A1", "50HMH", "02.01")

\* a current single-granule product: MTD_MSIL1C.xml, Granule elements, MTD_TL.xml
ArchiveNew ==
    [pathname |-> L1CDir \o <<"S2A", "_", "MSI", "L1C", "_", "T", "55HFA", ".zip">>,
     acq_ok |-> TRUE, kind |-> "zipfile",
     members |-> <<
       [name |-> <<"p", ".SAFE", "/", "MTD", "_", "MSI", "L1C", ".xml">>,
        doc |-> ProductDoc(<<>>, <<GranuleElement(GidA, FALSE)>>, <<(<<"02.01">>)>>)],
       [name |-> <<"p", ".SAFE", "/", "GRANULE", "/", "L1C", "_", "T", "55HFA", "/",
                   "MTD", "_", "TL", ".xml">>,
        doc |-> GranuleDoc(<<SensingA>>)] >>]

\* an earlier multi-granule product: every file is named after its identifier
ArchiveOld ==
    [pathname |-> L1CDir \o <<"S2A", "_", "OPER", "_", "PRD", "_", "MSI", "L1C", "_", "2016", ".zip">>,
     acq_ok |-> TRUE, kind |-> "zipfile",
     members |-> <<
       [name |-> <<"q", ".SAFE", "/", "S2A", "_", "OPER", "_", "MTD", "_", "SAF", "L1C", "_",
                   "2016", ".xml">>,
        doc |-> ProductDoc(<<GranuleElement(GidA, TRUE), GranuleElement(GidB, TRUE)>>, <<>>,
                           <<(<<"02.01">>)>>)],
       [name |-> <<"q", ".SAFE", "/", "GRANULE", "/">> \o GidA \o <<"/">>
                 \o GranuleXmlName("A1", "55HFA"),
        doc |-> GranuleDoc(<<SensingA>>)],
       [name |-> <<"q", ".SAFE", "/", "GRANULE", "/">> \o GidB \o <<"/">>
                 \o GranuleXmlName("A1", "50HMH"),
        doc |-> GranuleDoc(<<SensingB>>)] >>]

\* a product that bundles two granules, each with its own MTD_TL.xml
ArchiveMulti ==
    [pathname |-> L1CDir \o <<"S2A", "_", "MSI", "L1C", "_", "multi", ".zip">>,
     acq_ok |-> TRUE, kind |-> "zipfile",
     members |-> <<
       [name |-> <<"m", ".SAFE", "/", "MTD", "_", "MSI", "L1C", ".xml">>,
        doc |-> ProductDoc(<<>>, <<GranuleElement(GidB, FALSE), GranuleElement(GidA, FALSE)>>,
                           <<(<<"02.01">>)>>)],
       [name |-> <<"m", ".SAFE", "/", "GRANULE", "/", "L1C", "_", "T", "50HMH", "/",
                   "MTD", "_", "TL", ".xml">>,
        doc |-> GranuleDoc(<<SensingB>>)],
       [name |-> <<"m", ".SAFE", "/", "GRANULE", "/", "L1C", "_", "T", "55HFA", "/",
                   "MTD", "_", "TL", ".xml">>,
        doc |-> GranuleDoc(<<SensingA>>)] >>]

\* an archive that holds no product metadata document
ArchiveNoMetadata ==
    [pathname |-> L1CDir \o <<"S2A", "_", "MSI", "L1C", "_", "empty", ".zip">>,
     acq_ok |-> TRUE, kind |-> "zipfile",
     members |-> << [name |-> <<"e", ".SAFE", "/", "README">>, doc |-> GranuleDoc(<<>>)] >>]

\* an archive whose granule document has no SENSING_TIME
ArchiveNoSensing ==
    [pathname |-> L1CDir \o <<"S2A", "_", "MSI", "L1C", "_", "nosense", ".zip">>,
     acq_ok |-> TRUE, kind |-> "zipfile",
     members |-> <<
       [name |-> <<"n", ".SAFE", "/", "MTD", "_", "MSI", "L1C", ".xml">>,
        doc |-> ProductDoc(<<>>, <<GranuleElement(GidA, FALSE)>>, <<(<<"02.01">>)>>)],
       [name |-> <<"n", ".SAFE", "/", "GRANULE", "/", "L1C", "_", "T", "55HFA", "/",
                   "MTD", "_", "TL", ".xml">>,
        doc |-> GranuleDoc(<<>>)] >>]

\* an archive whose granule element has no granuleIdentifier attribute
ArchiveNoIdentifier ==
    [pathname |-> L1CDir \o <<"S2A", "_", "MSI", "L1C", "_", "noid", ".zip">>,
     acq_ok |-> TRUE, kind |-> "zipfile",
     members |-> <<
       [name |-> <<"i", ".SAFE", "/", "MTD", "_", "MSI", "L1C", ".xml">>,
        doc |-> ProductDoc(<<>>, <<GranuleElement(None, FALSE)>>, <<(<<"02.01">>)>>)],
       [name |-> <<"i", ".SAFE", "/", "GRANULE", "/", "L1C", "_", "T", "55HFA", "/",
                   "MTD", "_", "TL", ".xml">>,
        doc |-> GranuleDoc(<<SensingA>>)] >>]

\* the root of an expanded directory tree: not a file zipfile can open
DirectoryTree ==
    [pathname |-> L1CDir \o <<"S2A", "_", "MSI", "L1C", "_", "T", "50HMH", ".SAFE">>,
     acq_ok |-> TRUE, kind |-> "directory",
     members |-> <<>>]

\* a zip archive whose file name does not end in .zip, beside an expanded GRANULE tree
ArchiveNoSuffix ==
    [pathname |-> L1CDir \o <<"d7", "/", "S2A", "_", "MSI", "L1C", "_", "T", "50HMH">>,
     acq_ok |-> TRUE, kind |-> "zipfile",
     members |-> <<
       [name |-> <<"MTD", "_", "MSI", "L1C", ".xml">>,
        doc |-> ProductDoc(<<>>, <<GranuleElement(GidB, FALSE)>>, <<(<<"02.01">>)>>)] >>]

\* a file the acquisition reader cannot open
ArchiveCorrupt ==
    [pathname |-> L1CDir \o <<"corrupt", ".zip">>,
     acq_ok |-> FALSE, kind |-> "corrupt",
     members |-> <<>>]

\* the level1 datasets a scene list can name
Catalog ==
    {ArchiveNew, ArchiveOld, ArchiveMulti, ArchiveNoMetadata, ArchiveNoSensing,
     ArchiveNoIdentifier, DirectoryTree, ArchiveNoSuffix, ArchiveCorrupt}

\* the XML files that lie in the file system outside any archive
fs_files ==
    { [path |-> DirectoryTree.pathname \o <<"/", "MTD", "_", "MSI", "L1C", ".xml">>,
       doc |-> ProductDoc(<<>>, <<GranuleElement(GidB, FALSE)>>, <<(<<"02.01">>)>>)],
      [path |-> path_join3(DirectoryTree.pathname, <<"GRANULE">>, GidB,
                           GranuleXmlName("A1", "50HMH")),
       doc |-> GranuleDoc(<<SensingB>>)],
      [path |-> path_join3(path_parent(ArchiveNoSuffix.pathname), <<"GRANULE">>, GidB,
                           GranuleXmlName("A1", "50HMH")),
       doc |-> GranuleDoc(<<SensingB>>)] }

\* the dataset a pathname names
Dataset(pathname) == CHOOSE ds \in Catalog : ds.pathname = pathname

\* archive.namelist()
archive_namelist(ds) == [k \in 1..Len(ds.members) |-> ds.members[k].name]

\* ElementTree.XML(archive.read(name))
archive_read(ds, name) ==
    ds.members[CHOOSE k \in 1..Len(ds.members) : ds.members[k].name = name].doc

\* ------------------------------------------------------------------------
\* get_archive_metadata
\* ------------------------------------------------------------------------

\* A call's outcome: the exception that left it ("" when it returned) and its value.
Returned(value) == [raised |-> "", value |-> value]
Raised(exception) == [raised |-> exception, value |-> <<>>]

\* results[key] = value on a dict, which keeps the order of first insertion
dict_set(d, key, value) ==
    IF \E k \in 1..Len(d) : d[k].granule = key
    THEN [k \in 1..Len(d) |->
            IF d[k].granule = key THEN [granule |-> key, sensing_date |-> value] ELSE d[k]]
    ELSE Append(d, [granule |-> key, sensing_date |-> value])

\* The product metadata members of the archive: those naming MTD_MSIL1C.xml, else
\* those naming the archive's own name with PRD_MSIL1C -> MTD_SAFL1C, .zip -> .xml.
product_xmlfiles(ds) ==
    LET direct == names_containing(archive_namelist(ds), <<"MTD", "_", "MSI", "L1C", ".xml">>)
        pattern == str_replace(
                       basename(str_replace(ds.pathname, <<"PRD", "_", "MSI", "L1C">>,
                                            <<"MTD", "_", "SAF", "L1C">>)),
                       <<".zip">>, <<".xml">>)
    IN  IF direct # <<>> THEN direct ELSE names_containing(archive_namelist(ds), pattern)

\* The granule elements of the product document: .../Granules, else .../Granule.
granule_elements(xml_root) ==
    IF xml_root.Granules # <<>> THEN xml_root.Granules ELSE xml_root.Granule

\* The root of one granule's metadata document.
granule_xml_zip(ds, gran_id, processing_baseline) ==
    LET direct == names_containing(archive_namelist(ds), <<"MTD", "_", "TL", ".xml">>)
    IN  IF direct # <<>> THEN Returned(archive_read(ds, direct[1]))
        ELSE IF gran_id = None THEN Raised("AttributeError")
        ELSE LET pattern == str_replace(str_replace(gran_id, <<"MSI">>, <<"MTD">>),
                                        <<"_", "N">> \o processing_baseline, <<".xml">>)
                 found == names_containing(archive_namelist(ds), pattern)
             IN  IF found = <<>> THEN Raised("IndexError")
                 ELSE Returned(archive_read(ds, found[1]))

granule_xml_dir(ds, gran_id) ==
    IF gran_id = None THEN Raised("TypeError")
    ELSE LET gran_path ==
                 path_join3(path_parent(ds.pathname), <<"GRANULE">>, gran_id,
                            str_replace(str_drop_last(gran_id, 7), <<"MSI">>, <<"MTD">>)
                            \o <<".xml">>)
         IN  IF \E f \in fs_files : f.path = gran_path
             THEN Returned((CHOOSE f \in fs_files : f.path = gran_path).doc)
             ELSE Raised("FileNotFoundError")

granule_xml(ds, gran_id, processing_baseline) ==
    IF path_suffix(ds.pathname) # <<".zip">>
    THEN granule_xml_dir(ds, gran_id)
    ELSE granule_xml_zip(ds, gran_id, processing_baseline)

\* for granule in grn_elements: ... results[gran_id] = date_parser(sensing_time)
RECURSIVE granule_loop(_, _, _, _)
granule_loop(ds, grn_elements, processing_baseline, results) ==
    IF grn_elements = <<>> THEN Returned(results)
    ELSE LET gran_id == Head(grn_elements).granuleIdentifier
             root == granule_xml(ds, gran_id, processing_baseline)
         IN  IF root.raised # "" THEN Raised(root.raised)
             ELSE IF root.value.sensing = <<>> THEN Raised("IndexError")
             ELSE granule_loop(ds, Tail(grn_elements), processing_baseline,
                               dict_set(results, gran_id,
                                        date_parser(root.value.sensing[1])))

get_archive_metadata(pathname) ==
    LET ds == Dataset(pathname)
        xmlfiles == product_xmlfiles(ds)
    IN  IF ds.kind = "directory" THEN Raised("IsADirectoryError")
        ELSE IF ds.kind # "zipfile" THEN Raised("BadZipFile")
        ELSE IF xmlfiles = <<>> THEN Raised("IndexError")
        ELSE LET xml_root == archive_read(ds, xmlfiles[1])
                 grn_elements == granule_elements(xml_root)
             IN  IF grn_elements = <<>> THEN Raised("IndexError")
                 ELSE IF xml_root.baseline = <<>> THEN Raised("IndexError")
                 ELSE granule_loop(ds, grn_elements, xml_root.baseline[1], <<>>)

\* ------------------------------------------------------------------------
\* filter_granules, filter_granule and the filter command
\* ------------------------------------------------------------------------

\* the longest scene list of the model
MaxBatch == 2

\* the lines of the area-of-interest file
AoiTiles == {<<"55HFA">>, <<"50HMH">>}

\* the output packages that may lie under pkgdir before the filter runs
PackageKeys ==
    { [level1 |-> ArchiveNew.pathname, granule |-> GidA, ymd |-> 1],
      [level1 |-> ArchiveOld.pathname, granule |-> GidA, ymd |-> 0],
      [level1 |-> ArchiveOld.pathname, granule |-> GidB, ymd |-> 1] }

VARIABLES
    raw_zips,        \* the level1 scene list, in file order
    good_tile_ids,   \* the tiles of the area of interest, each with its "T"
    packaged,        \* the output packages that exist under pkgdir
    out_stream,      \* the lines printed to the worklist
    count,           \* filter_granules' running granule count
    i,               \* the position in raw_zips of the dataset under evaluation
    pc,              \* where the evaluation stands
    granule_md,      \* filter_granule's extraction result
    pos,             \* the position in granule_md of the granule under examination
    exception,       \* the exception that left filter_granules, with the line that raised
    calls,           \* what the evaluation of the latest dataset called
    run,             \* which invocation of the command this is
    first            \* what the first invocation produced

vars == <<raw_zips, good_tile_ids, packaged, out_stream, count, i, pc, granule_md, pos,
          exception, calls, run, first>>

env == <<raw_zips, good_tile_ids, packaged>>

NoException == [name |-> "", line |-> 0]

NoCalls == [acquisitions |-> 0, get_archive_metadata |-> 0, examined |-> <<>>, exists |-> <<>>]

\* acquisitions(str(level1_dataset)) of wagl: whether it opens the dataset
acquisitions(level1_dataset) == Dataset(level1_dataset).acq_ok

\* Package(level1, workdir, granule, pkgdir=join(pkgdir, ymd)).output().exists()
package_exists(level1, granule, ymd) ==
    [level1 |-> level1, granule |-> granule, ymd |-> ymd] \in packaged

\* the exception of granule.split('_')[-2], "" when there is none
tile_id_raises(granule) ==
    IF granule = None THEN "AttributeError"
    ELSE IF Len(str_split(granule, "_")) < 2 THEN "IndexError"
    ELSE ""

\* granule.split('_')[-2]
tile_id(granule) == str_split(granule, "_")[Len(str_split(granule, "_")) - 1]

\* the line is written at the head of the stream
print_line_first(stream, level1_dataset) == <<level1_dataset>> \o stream

\* print(level1_dataset, file=out_stream)
print_line(stream, level1_dataset) == Append(stream, level1_dataset)

\* count += 1
granule_count_one(md) == 1

\* len(granule_md.keys())
granule_count(md) == Len(md)

\* tempfile.NamedTemporaryFile(...): a new, empty file for each invocation
NamedTemporaryFile == <<>>

\* {'T' + tile.strip() for tile in csv}
read_aoi(csv) == {<<"T">> \o tile : tile \in csv}

\* the scene lists of at most n lines
RECURSIVE SceneLists(_)
SceneLists(n) ==
    IF n = 0 THEN {<<>>}
    ELSE SceneLists(n - 1)
         \cup {Append(l, ds.pathname) : l \in {x \in SceneLists(n - 1) : Len(x) = n - 1},
                                       ds \in Catalog}

Init ==
    /\ raw_zips \in SceneLists(MaxBatch)
    /\ good_tile_ids \in {read_aoi(csv) : csv \in SUBSET AoiTiles}
    /\ packaged \in SUBSET PackageKeys
    /\ out_stream = NamedTemporaryFile
    /\ count = 0
    /\ i = 1
    /\ pc = "next"
    /\ granule_md = <<>>
    /\ pos = 0
    /\ exception = NoException
    /\ calls = NoCalls
    /\ run = 1
    /\ first = <<>>

\* filter_granule returns c: the loop of filter_granules goes to the next dataset
ReturnCount(c) ==
    /\ count' = c
    /\ i' = i + 1
    /\ pc' = "next"
    /\ granule_md' = <<>>
    /\ pos' = 0

\* an exception leaves filter_granule and filter_granules
Propagate(name, line) ==
    /\ exception' = [name |-> name, line |-> line]
    /\ pc' = "raised"
    /\ granule_md' = <<>>
    /\ pos' = 0
    /\ UNCHANGED <<count, i>>

\* acquisitions() raises and the evaluation goes on
AcquisitionFails_GoesOn ==
    /\ pc = "next" /\ i <= Len(raw_zips)
    /\ ~acquisitions(raw_zips[i])
    /\ calls' = [NoCalls EXCEPT !.acquisitions = 1]
    /\ pc' = "extract"
    /\ UNCHANGED <<env, out_stream, count, i, granule_md, pos, exception, run, first>>

\* acquisitions() raises: the warning is logged and count is returned
AcquisitionFails ==
    /\ pc = "next" /\ i <= Len(raw_zips)
    /\ ~acquisitions(raw_zips[i])
    /\ calls' = [NoCalls EXCEPT !.acquisitions = 1]
    /\ ReturnCount(count)
    /\ UNCHANGED <<env, out_stream, exception, run, first>>

\* acquisitions() returns a container
AcquisitionOpens ==
    /\ pc = "next" /\ i <= Len(raw_zips)
    /\ acquisitions(raw_zips[i])
    /\ calls' = [NoCalls EXCEPT !.acquisitions = 1]
    /\ pc' = "extract"
    /\ UNCHANGED <<env, out_stream, count, i, granule_md, pos, exception, run, first>>

\* granule_md = get_archive_metadata(level1_dataset) raises: nothing catches it
ExtractRaises ==
    /\ pc = "extract"
    /\ LET md == get_archive_metadata(raw_zips[i])
       IN  md.raised # "" /\ Propagate(md.raised, 115)
    /\ calls' = [calls EXCEPT !.get_archive_metadata = @ + 1]
    /\ UNCHANGED <<env, out_stream, run, first>>

\* granule_md = get_archive_metadata(level1_dataset) returns; the loop over
\* granule_md.items() starts (an empty mapping ends it at once: return count)
ExtractReturns ==
    /\ pc = "extract"
    /\ LET md == get_archive_metadata(raw_zips[i])
       IN  /\ md.raised = ""
           /\ IF md.value = <<>>
              THEN ReturnCount(count)
              ELSE /\ granule_md' = md.value
                   /\ pos' = 1
                   /\ pc' = "tile"
                   /\ UNCHANGED <<count, i>>
    /\ calls' = [calls EXCEPT !.get_archive_metadata = @ + 1]
    /\ UNCHANGED <<env, out_stream, exception, run, first>>

\* granule.split('_')[-2] raises: the identifier is None or has no "_"
TileRaises ==
    /\ pc = "tile"
    /\ tile_id_raises(granule_md[pos].granule) # ""
    /\ calls' = [calls EXCEPT !.examined = Append(@, granule_md[pos].granule)]
    /\ Propagate(tile_id_raises(granule_md[pos].granule), 118)
    /\ UNCHANGED <<env, out_stream, run, first>>

\* tile_id not in good_tile_ids: continue with the next granule
TileOutsideAOI_Continue ==
    /\ pc = "tile"
    /\ tile_id_raises(granule_md[pos].granule) = ""
    /\ tile_id(granule_md[pos].granule) \notin good_tile_ids
    /\ calls' = [calls EXCEPT !.examined = Append(@, granule_md[pos].granule)]
    /\ IF pos < Len(granule_md)
       THEN pos' = pos + 1 /\ UNCHANGED <<count, i, pc, granule_md>>
       ELSE ReturnCount(count)
    /\ UNCHANGED <<env, out_stream, exception, run, first>>

\* the package is looked up before the tile is compared
TileOutsideAOI_LocatorFirst ==
    /\ pc = "tile"
    /\ tile_id_raises(granule_md[pos].granule) = ""
    /\ tile_id(granule_md[pos].granule) \notin good_tile_ids
    /\ calls' = [calls EXCEPT !.examined = Append(@, granule_md[pos].granule),
                              !.exists = Append(@, [level1 |-> raw_zips[i],
                                  granule |-> granule_md[pos].granule,
                                  ymd |-> strftime_ymd(granule_md[pos].sensing_date)])]
    /\ ReturnCount(count)
    /\ UNCHANGED <<env, out_stream, exception, run, first>>

\* tile_id not in good_tile_ids: return count
TileOutsideAOI ==
    /\ pc = "tile"
    /\ tile_id_raises(granule_md[pos].granule) = ""
    /\ tile_id(granule_md[pos].granule) \notin good_tile_ids
    /\ calls' = [calls EXCEPT !.examined = Append(@, granule_md[pos].granule)]
    /\ ReturnCount(count)
    /\ UNCHANGED <<env, out_stream, exception, run, first>>

\* tile_id in good_tile_ids: go on to the package of this granule
TileInsideAOI ==
    /\ pc = "tile"
    /\ tile_id_raises(granule_md[pos].granule) = ""
    /\ tile_id(granule_md[pos].granule) \in good_tile_ids
    /\ calls' = [calls EXCEPT !.examined = Append(@, granule_md[pos].granule)]
    /\ pc' = "package"
    /\ UNCHANGED <<env, out_stream, count, i, granule_md, pos, exception, run, first>>

\* the key of the package of the granule under examination
PackageKey ==
    [level1 |-> raw_zips[i], granule |-> granule_md[pos].granule,
     ymd |-> strftime_ymd(granule_md[pos].sensing_date)]

\* package.output().exists(): return count
AlreadyProcessed ==
    /\ pc = "package"
    /\ package_exists(PackageKey.level1, PackageKey.granule, PackageKey.ymd)
    /\ calls' = [calls EXCEPT !.exists = Append(@, PackageKey)]
    /\ ReturnCount(count)
    /\ UNCHANGED <<env, out_stream, exception, run, first>>

\* the listed dataset is also marked as packaged
NeedsProcessing_Marks ==
    /\ pc = "package"
    /\ ~package_exists(PackageKey.level1, PackageKey.granule, PackageKey.ymd)
    /\ calls' = [calls EXCEPT !.exists = Append(@, PackageKey)]
    /\ out_stream' = print_line(out_stream, raw_zips[i])
    /\ packaged' = packaged \cup {PackageKey}
    /\ ReturnCount(count + granule_count(granule_md))
    /\ UNCHANGED <<raw_zips, good_tile_ids, exception, run, first>>

\* no package: print the dataset, add the number of its granules, break, return count
NeedsProcessing ==
    /\ pc = "package"
    /\ ~package_exists(PackageKey.level1, PackageKey.granule, PackageKey.ymd)
    /\ calls' = [calls EXCEPT !.exists = Append(@, PackageKey)]
    /\ out_stream' = print_line(out_stream, raw_zips[i])
    /\ ReturnCount(count + granule_count(granule_md))
    /\ UNCHANGED <<env, exception, run, first>>

\* the loop of filter_granules is over: return out_stream, count
FilterGranulesReturns ==
    /\ pc = "next" /\ i > Len(raw_zips)
    /\ pc' = "done"
    /\ UNCHANGED <<env, out_stream, count, i, granule_md, pos, exception, calls, run, first>>

Next ==
    \/ AcquisitionFails
    \/ AcquisitionOpens
    \/ ExtractRaises
    \/ ExtractReturns
    \/ TileRaises
    \/ TileOutsideAOI
    \/ TileInsideAOI
    \/ AlreadyProcessed
    \/ NeedsProcessing
    \/ FilterGranulesReturns

Spec == Init /\ [][Next]_vars

\* The filter command is run again on the same scene list, area of interest and
\* pkgdir: a new temporary file, and filter_granules starts from count = 0.
FilterAgain ==
    /\ run = 1
    /\ pc \in {"done", "raised"}
    /\ first' = [out_stream |-> out_stream, count |-> count, pc |-> pc, exception |-> exception]
    /\ run' = 2
    /\ out_stream' = NamedTemporaryFile
    /\ count' = 0
    /\ i' = 1
    /\ pc' = "next"
    /\ exception' = NoException
    /\ calls' = NoCalls
    /\ UNCHANGED <<env, granule_md, pos>>

NextTwice == Next \/ FilterAgain

SpecTwice == Init /\ [][NextTwice]_vars

\* ------------------------------------------------------------------------
\* What the properties speak of
\* ------------------------------------------------------------------------

\* What the collaborators and the extractor do on a dataset: whether the
\* acquisition reader opens it, and the outcome of get_archive_metadata.
Outcome(pathname) ==
    LET md == get_archive_metadata(pathname)
    IN  [level1 |-> pathname, opens |-> Dataset(pathname).acq_ok,
         raised |-> md.raised, mapping |-> md.value]

\* the structural open and the extraction both succeed
Extractable(o) ==
    o.opens /\ o.raised = "" /\ o.mapping # <<>> /\ o.mapping[1].granule # None

\* the tile code of a granule: the token before the last "_"
TileCode(granule) == str_split(granule, "_")[Len(str_split(granule, "_")) - 1]

FirstTileInRoi(o) == Extractable(o) /\ TileCode(o.mapping[1].granule) \in good_tile_ids

FirstTileOutsideRoi(o) == Extractable(o) /\ TileCode(o.mapping[1].granule) \notin good_tile_ids

\* (dataset, first granule, the calendar date of its sensing time)
FirstPackage(o) ==
    [level1 |-> o.level1, granule |-> o.mapping[1].granule,
     ymd |-> o.mapping[1].sensing_date.day]

\* a multi-granule dataset whose first granule lies outside the ROI and a later one inside
StraddlesRoi(o) ==
    /\ FirstTileOutsideRoi(o)
    /\ \E k \in 2..Len(o.mapping) : TileCode(o.mapping[k].granule) \in good_tile_ids

\* the dataset the variable calls speaks of: the one under evaluation, or the
\* one whose evaluation has just ended
Evaluating == pc \in {"extract", "tile", "package", "raised"}

CallsDataset == IF Evaluating THEN raw_zips[i] ELSE raw_zips[i - 1]

HasCalls == Evaluating \/ (pc \in {"next", "done"} /\ i > 1)

\* the lines of raw_zips at the positions S, in file order
RECURSIVE Selected(_, _)
Selected(S, n) ==
    IF n = 0 THEN <<>>
    ELSE IF n \in S THEN Append(Selected(S, n - 1), raw_zips[n]) ELSE Selected(S, n - 1)

\* the sum of the sizes of the extraction mappings of the lines of a worklist
RECURSIVE WorklistGranules(_)
WorklistGranules(worklist) ==
    IF worklist = <<>> THEN 0
    ELSE Len(get_archive_metadata(Head(worklist)).value) + WorklistGranules(Tail(worklist))

\* the SENSING_TIME of the granule's own metadata document: the member of the
\* archive under GRANULE/ that is named after the granule's tile
OwnSensingTime(pathname, granule) ==
    LET own == CHOOSE k \in 1..Len(Dataset(pathname).members) :
                   /\ str_in(<<"/", "GRANULE", "/">>, Dataset(pathname).members[k].name)
                   /\ str_in(TileCode(granule), Dataset(pathname).members[k].name)
    IN  Dataset(pathname).members[own].doc.sensing[1]

\* the granule elements of the product metadata document of a directory tree
ProductGranules(pathname) ==
    granule_elements((CHOOSE f \in fs_files :
        f.path = pathname \o <<"/", "MTD", "_", "MSI", "L1C", ".xml">>).doc)

\* an expanded directory tree with the product metadata at its fixed place and
\* each granule's metadata at GRANULE/<granule_id>/<transformed_id>.xml
DirectoryLayout(pathname) ==
    /\ Dataset(pathname).kind = "directory"
    /\ path_suffix(pathname) # <<".zip">>
    /\ \E f \in fs_files :
         /\ f.path = pathname \o <<"/", "MTD", "_", "MSI", "L1C", ".xml">>
         /\ granule_elements(f.doc) # <<>>
         /\ \A k \in 1..Len(granule_elements(f.doc)) :
              \E g \in fs_files :
                g.path = path_join3(pathname, <<"GRANULE">>,
                                    granule_elements(f.doc)[k].granuleIdentifier,
                                    str_replace(str_drop_last(
                                        granule_elements(f.doc)[k].granuleIdentifier, 7),
                                        <<"MSI">>, <<"MTD">>) \o <<".xml">>)

\* ------------------------------------------------------------------------
\* Properties
\* ------------------------------------------------------------------------

\* C1: a dataset whose metadata extraction fails is skipped: no exception of
\* get_archive_metadata propagates out of filter_granules.
C1_ExtractionFailureIsSkipped == ~(pc = "raised" /\ exception.line = 115)

\* C2: a dataset that opens, extracts and whose first granule's tile is in the
\* ROI gets one line of the worklist, written when its evaluation ends, if and
\* only if no package exists for (dataset, first granule, sensing date); no
\* other step of its evaluation writes.
C2_PackageDecides ==
    [][i <= Len(raw_zips) =>
         LET o == Outcome(raw_zips[i])
         IN  FirstTileInRoi(o)
               => out_stream' = IF i' = i + 1 /\ FirstPackage(o) \notin packaged
                                THEN Append(out_stream, raw_zips[i])
                                ELSE out_stream]_vars

\* C2 witness: of two such datasets the first, without a package, is listed and
\* the second, with its package, is not.
C2_Witness ==
    /\ pc = "done" /\ Len(raw_zips) = 2 /\ out_stream = <<raw_zips[1]>>
    /\ LET o1 == Outcome(raw_zips[1])
           o2 == Outcome(raw_zips[2])
       IN  /\ FirstTileInRoi(o1) /\ FirstPackage(o1) \notin packaged
           /\ FirstTileInRoi(o2) /\ FirstPackage(o2) \in packaged

\* C3: no step of the evaluation of a multi-granule dataset whose first granule
\* is outside the ROI and a later one inside writes to the worklist, adds to the
\* count or examines a granule other than the first.
C3_FirstMissExcludes ==
    [][i <= Len(raw_zips) =>
         LET o == Outcome(raw_zips[i])
         IN  StraddlesRoi(o)
               => /\ out_stream' = out_stream
                  /\ count' = count
                  /\ calls'.examined \in {<<>>, <<o.mapping[1].granule>>}]_vars

\* C3 witness: such a dataset has been evaluated, and only its first granule examined.
C3_Witness ==
    /\ pc = "next" /\ i = 2 /\ out_stream = <<>> /\ count = 0
    /\ LET o == Outcome(raw_zips[1])
       IN  StraddlesRoi(o) /\ calls.examined = <<o.mapping[1].granule>>

\* C4: a dataset that acquisitions() cannot open is skipped in one step: the
\* worklist and the count stay, neither the extractor nor the package locator
\* is called, and filter_granules goes on to the next dataset.
C4_AcquisitionFailureIsSkipped ==
    [][(pc = "next" /\ i <= Len(raw_zips) /\ ~Dataset(raw_zips[i]).acq_ok)
         => /\ out_stream' = out_stream
            /\ count' = count
            /\ calls'.get_archive_metadata = 0
            /\ calls'.exists = <<>>
            /\ pc' = "next" /\ i' = i + 1]_vars

\* C4 witness: the first dataset could not be opened and the second was evaluated and listed.
C4_Witness ==
    /\ pc = "done" /\ Len(raw_zips) = 2
    /\ ~Dataset(raw_zips[1]).acq_ok
    /\ out_stream = <<raw_zips[2]>>

\* C5: the count filter_granules returns is the sum, over the lines of the
\* worklist, of the size of that dataset's extraction mapping.
C5_CountIsSumOfMappings == pc = "done" => count = WorklistGranules(out_stream)

\* C5 witness: a two-granule dataset and a one-granule dataset are listed.
C5_Witness ==
    /\ pc = "done" /\ Len(out_stream) = 2 /\ count = 3
    /\ Len(get_archive_metadata(out_stream[1]).value) = 2

\* C6: the worklist is the scene list restricted to a set of the positions
\* evaluated so far, in file order.
C6_WorklistIsSubsequence ==
    \E S \in SUBSET (1..(IF pc = "next" \/ pc = "done" THEN i - 1 ELSE i)) :
        out_stream = Selected(S, Len(raw_zips))

\* C6 witness: two different datasets are listed, in file order.
C6_Witness ==
    /\ pc = "done" /\ Len(raw_zips) = 2 /\ raw_zips[1] # raw_zips[2]
    /\ out_stream = raw_zips

\* C7: during the evaluation of one dataset the package locator is asked at
\* most once, and only about the first granule; it is not asked when the
\* dataset is skipped or its first granule's tile is outside the ROI.
C7_LocatorAskedOnceAboutFirst ==
    HasCalls =>
      LET o == Outcome(CallsDataset)
      IN  /\ Len(calls.exists) <= 1
          /\ \A k \in 1..Len(calls.exists) :
               FirstTileInRoi(o) /\ calls.exists[k] = FirstPackage(o)
          /\ (~Extractable(o) \/ FirstTileOutsideRoi(o)) => calls.exists = <<>>

\* C7 witness: a two-granule dataset has been evaluated and the locator was
\* asked once, about its first granule.
C7_Witness ==
    /\ pc = "next" /\ i = 2
    /\ LET o == Outcome(raw_zips[1])
       IN  Len(o.mapping) = 2 /\ calls.exists = <<FirstPackage(o)>>

\* C8: on an expanded directory tree with the documents at their places,
\* get_archive_metadata returns a mapping with one entry per granule.
C8_DirectoryTreeExtracts ==
    (pc \in {"tile", "package", "raised"} /\ DirectoryLayout(raw_zips[i]))
      => /\ pc # "raised"
         /\ granule_md # <<>>
         /\ Len(granule_md) = Len(ProductGranules(raw_zips[i]))

\* C9: the second invocation on the same scene list, ROI and packages ends as
\* the first did, with the same worklist and the same count.
C9_SecondRunIsTheSame ==
    (run = 2 /\ pc \in {"done", "raised"})
      => /\ out_stream = first.out_stream
         /\ count = first.count
         /\ pc = first.pc
         /\ exception = first.exception

\* C9 witness: the second invocation has ended with a worklist of two lines.
C9_Witness == run = 2 /\ pc = "done" /\ Len(out_stream) = 2 /\ count = 3

\* C10: in the mapping of a compressed archive of several granules every
\* entry carries the sensing time of the granule's own metadata document.
C10_OwnSensingTime ==
    (pc = "tile" /\ path_suffix(raw_zips[i]) = <<".zip">> /\ Len(granule_md) >= 2)
      => \A k \in 1..Len(granule_md) :
           granule_md[k].sensing_date
             = date_parser(OwnSensingTime(raw_zips[i], granule_md[k].granule))

====
